---- MODULE Spec2Model ----
(***************************************************************************)
(* Model of the optical alignment engine of optal/alignment.py: the        *)
(* command arbiter (_Command), the full-command mapper                     *)
(* (_extract_cmds_to_apply, _apply_command), the push-pull cycle           *)
(* (_img_acquisition, _push_pull_redux) and the calibration loop           *)
(* (calibrate_alignment, _images_production, _zern_routine).               *)
(*                                                                         *)
(* Vectors are sequences of integers; Python's 0-based indices are kept as *)
(* written in the configuration and shifted by one when a sequence is      *)
(* indexed.  A call result is Ok(v) or Raise(e).                           *)
(***************************************************************************)
EXTENDS Integers, Sequences, FiniteSets, TLC

VARIABLES
    args,       \* arguments of a direct call of one method (pure-call runs)
    ret,        \* what that call returned: [op |-> "none"] before the call
    \* the hardware
    devPos,     \* devPos[d]: the position device d is at (what its read call returns)
    broken,     \* the devices whose move call raises
    nacq,       \* frames the camera has delivered so far
    \* the Alignment object
    cmdMat,     \* self.cmdMat, as the sequence of its columns (cmdMat.T)
    cmdAmp,     \* self._cmdAmp (0 stands for None, before a calibration)
    cfg_template,    \* the list sc.push_pull_template / self._template
    intMat,     \* self.intMat
    \* the running calibrate_alignment call and the calls below it
    pc,         \* where the call stands
    caller_template, \* the caller's template list (when one is given)
    use_default,     \* template is None: the list in use is self._template
    n_repetitions,
    rep_i,      \* _images_production: the repetition i, 0-based as in the code
    col_k,      \* _images_production: the column k, 0-based as in the code
    results,    \* _images_production: the list `results`
    n_results,  \* _images_production: [refs |-> n]: a list of n references to
                \* `results`; [alias |-> b]: b says n_results is `results` itself
    imglist,    \* _img_acquisition: the frames acquired in this cycle
    tix,        \* _img_acquisition: how many template weights are done
    fullCmd,    \* _apply_command: the full command being applied
    commands,   \* _extract_cmds_to_apply: the per-device deltas
    positions,  \* read_positions: the positions read so far
    device_commands, \* _apply_command: the absolute commands
    dev_d,      \* loop index over the devices (0-based)
    \* history, for stating the claims
    log,        \* the device and camera calls of the current cycle, in order
    produced,   \* the demodulated image of every finished cycle
    startPos,   \* the positions of the devices when the current cycle began
    \* the public call
    call,       \* the public method running and its arguments
    f_cmd,      \* correct_alignment: the correction command it computed
    result      \* what the public call gave back, once it is over

callVars == <<args, ret>>
hwVars == <<devPos, broken, nacq>>
objVars == <<cmdMat, cmdAmp, cfg_template, intMat>>
prodVars == <<caller_template, use_default, n_repetitions, rep_i, col_k, results, n_results>>
cycleVars == <<imglist, tix>>
applyVars == <<fullCmd, commands, positions, device_commands, dev_d>>
topVars == <<call, f_cmd, result>>
machineVars == <<hwVars, objVars, pc, prodVars, cycleVars, applyVars, log, produced,
                 startPos, topVars>>
vars == <<callVars, machineVars>>

-----------------------------------------------------------------------------
(* Bounds of the model                                                     *)

MaxLen == 2     \* longest vector handed to _Command directly
MaxVal == 1     \* vector components range over -MaxVal..MaxVal
MaxT == 2       \* longest push-pull template handed to _push_pull_redux directly
NPix == 1       \* pixels of an image
MaxDof == 3     \* largest total DOF of a device handed to the mapper directly
MaxRep == 2     \* largest n_repetitions of a calibration

Vals == (0 - MaxVal)..MaxVal
Vects(n) == [1..n -> Vals]
AllVects == UNION {Vects(n) : n \in 1..MaxLen}

-----------------------------------------------------------------------------
(* optal/SystemConfiguration.py                                            *)

cmdDof == 6
dof == << <<2, 3, 4>>, <<3, 4>>, <<3, 4>> >>
\* slices of which the second begins inside the first
slices_overlap == << [start |-> 0, stop |-> 3], [start |-> 2, stop |-> 5], [start |-> 5, stop |-> 7] >>

slices == << [start |-> 0, stop |-> 3], [start |-> 3, stop |-> 5], [start |-> 5, stop |-> 7] >>
zernike_to_use == <<1, 2, 3, 6, 7>>
push_pull_template == <<1, 0 - 2, 1>>

\* the devices, in configured order (names / devices_move_calls)
NDev == Len(dof)
Devices == 1..NDev

\* self._dofTot: cmdDof for every device when it is no list
dofTot == [dv \in Devices |-> cmdDof]

\* self._zvec2fit = np.arange(1, 11)
zvec2fit == [j \in 1..10 |-> j]

-----------------------------------------------------------------------------
(* Call results                                                            *)

Ok(v) == [raised |-> "none", value |-> v]
Raise(e) == [raised |-> e]

-----------------------------------------------------------------------------
(* The Alignment object before any call, with the devices at rest          *)

ZeroVec(n) == [j \in 1..n |-> 0]

\* no public call has been made
NoCall == [name |-> "none", apply |-> FALSE, template |-> <<>>]

\* the public call is not over
Pending == [raised |-> "pending"]

IdleCall ==
    /\ pc = "idle"
    /\ call = NoCall
    /\ f_cmd = <<>>
    /\ result = Pending
    /\ startPos = <<>>
    /\ caller_template = <<>>
    /\ use_default = TRUE
    /\ n_repetitions = 0
    /\ rep_i = 0
    /\ col_k = 0
    /\ results = <<>>
    /\ n_results = [refs |-> 0, alias |-> FALSE]
    /\ imglist = <<>>
    /\ tix = 0
    /\ fullCmd = <<>>
    /\ commands = <<>>
    /\ positions = <<>>
    /\ device_commands = <<>>
    /\ dev_d = 0
    /\ log = <<>>
    /\ produced = <<>>

\* __init__: no amplitude, no interaction matrix, the configured template
NewObject ==
    /\ cmdAmp = 0
    /\ intMat = <<>>
    /\ cfg_template = push_pull_template
    /\ nacq = 0

\* the state of the machine during the direct calls of single methods
AtRest ==
    /\ NewObject
    /\ IdleCall
    /\ devPos = [dv \in Devices |-> ZeroVec(dofTot[dv])]
    /\ broken = {}
    /\ cmdMat = <<>>

-----------------------------------------------------------------------------
(* numpy helpers used by _Command                                          *)

\* np.all(v == 0)
AllZero(v) == \A i \in DOMAIN v : v[i] = 0

\* np.array_equal(a, b): same shape and same elements
array_equal(a, b) == Len(a) = Len(b) /\ \A i \in DOMAIN a : a[i] = b[i]

\* -1 * v
Neg(v) == [i \in DOMAIN v |-> 0 - v[i]]

\* a + b on 1-d arrays, with numpy broadcasting: equal lengths add element by
\* element, a length-1 operand is stretched, anything else is a ValueError
VecAdd(a, b) ==
    IF Len(a) = Len(b) THEN Ok([i \in 1..Len(a) |-> a[i] + b[i]])
    ELSE IF Len(a) = 1 THEN Ok([i \in 1..Len(b) |-> a[1] + b[i]])
    ELSE IF Len(b) = 1 THEN Ok([i \in 1..Len(a) |-> a[i] + b[1]])
    ELSE Raise("ValueError")

-----------------------------------------------------------------------------
(* class _Command                                                          *)

\* _Command(vector, to_ignore); to_ignore is "None" until a decision is taken
Command(vector, to_ignore) == [vect |-> vector, to_ignore |-> to_ignore]

\* _Command.is_null
is_null(cmd) == AllZero(cmd.vect)

\* a variant of the decision logic that issues a move for a null delta
process_command_logic_nullmove(P, C, S) ==
    IF AllZero(S)
    THEN IF ~is_null(P) /\ ~is_null(C) /\ array_equal(C.vect, Neg(P.vect))
         THEN Ok(FALSE)
         ELSE IF is_null(C) /\ is_null(P) THEN Ok(TRUE)
         ELSE Raise("UnboundLocalError")
    ELSE IF ~is_null(P) /\ is_null(C) /\ array_equal(S, P.vect) THEN Ok(FALSE)
         ELSE IF ~is_null(C) /\ ~is_null(P) THEN Ok(FALSE)
         ELSE IF is_null(P) /\ ~is_null(C) /\ array_equal(S, C.vect)
              THEN Ok(FALSE)
         ELSE Raise("UnboundLocalError")

\* a variant of the decision logic that skips the return to zero
process_command_logic_skipreturn(P, C, S) ==
    IF AllZero(S)
    THEN IF ~is_null(P) /\ ~is_null(C) /\ array_equal(C.vect, Neg(P.vect))
         THEN Ok(TRUE)
         ELSE IF is_null(C) /\ is_null(P) THEN Ok(TRUE)
         ELSE Raise("UnboundLocalError")
    ELSE IF ~is_null(P) /\ is_null(C) /\ array_equal(S, P.vect) THEN Ok(TRUE)
         ELSE IF ~is_null(C) /\ ~is_null(P) THEN Ok(FALSE)
         ELSE IF is_null(P) /\ ~is_null(C) /\ array_equal(S, C.vect)
              THEN Ok(FALSE)
         ELSE Raise("UnboundLocalError")

\* _Command._process_command_logic: `decision` is assigned in five branches
\* and returned; when no branch assigns it the return raises
\* UnboundLocalError
process_command_logic(P, C, S) ==
    IF AllZero(S)
    THEN IF ~is_null(P) /\ ~is_null(C) /\ array_equal(C.vect, Neg(P.vect))
         THEN Ok(FALSE)
         ELSE IF is_null(C) /\ is_null(P) THEN Ok(TRUE)
         ELSE Raise("UnboundLocalError")
    ELSE IF ~is_null(P) /\ is_null(C) /\ array_equal(S, P.vect) THEN Ok(TRUE)
         ELSE IF ~is_null(C) /\ ~is_null(P) THEN Ok(FALSE)
         ELSE IF is_null(P) /\ ~is_null(C) /\ array_equal(S, C.vect)
              THEN Ok(FALSE)
         ELSE Raise("UnboundLocalError")

\* _Command.__add__(self, other)
Add(self, other) ==
    LET combined_vect == VecAdd(self.vect, other.vect) IN
    IF combined_vect.raised # "none" THEN combined_vect
    ELSE LET to_ignore == process_command_logic(self, other, combined_vect.value)
         IN  IF to_ignore.raised # "none" THEN to_ignore
             ELSE Ok(Command(combined_vect.value, to_ignore.value))

-----------------------------------------------------------------------------
(* Direct calls of the arbiter: P + C, and the decision logic on any S     *)

InitArbiter ==
    /\ AtRest
    /\ args \in [P : AllVects, C : AllVects]
    /\ ret = [op |-> "none"]

CallAdd ==
    /\ ret.op = "none"
    /\ ret' = [op |-> "add",
               res |-> Add(Command(args.P, "None"), Command(args.C, "None"))]
    /\ UNCHANGED <<args, machineVars>>

\* _process_command_logic(P, C, S) called with any S of P's length
CallLogic ==
    /\ ret.op = "none"
    /\ \E S \in Vects(Len(args.P)) :
           ret' = [op |-> "logic", S |-> S,
                   res |-> process_command_logic(Command(args.P, "None"),
                                                 Command(args.C, "None"), S)]
    /\ UNCHANGED <<args, machineVars>>

NextArbiter == CallAdd \/ CallLogic

SpecArbiter == InitArbiter /\ [][NextArbiter]_vars

-----------------------------------------------------------------------------
(* Images: numpy masked arrays, flattened to NPix pixels.  mask[p] = TRUE  *)
(* marks an invalid pixel.                                                 *)

Pixels == 1..NPix

\* what one pixel of an acquired frame can be
PixChoices == {[v |-> 0, m |-> FALSE], [v |-> 1, m |-> FALSE], [v |-> 1, m |-> TRUE]}

Images ==
    {[data |-> [p \in Pixels |-> f[p].v], mask |-> [p \in Pixels |-> f[p].m]] :
        f \in [Pixels -> PixChoices]}

\* np.ma.mask_or(m1, m2)
mask_or(m1, m2) == [p \in Pixels |-> m1[p] \/ m2[p]]

\* MaskedArray * scalar: the result keeps the operand's mask and, under the
\* mask, the operand's data
MaMul(img, w) ==
    [data |-> [p \in Pixels |-> IF img.mask[p] THEN img.data[p] ELSE img.data[p] * w],
     mask |-> img.mask]

\* MaskedArray + MaskedArray: the masks are or-ed and, under the resulting
\* mask, the data is the first operand's
MaAdd(a, b) ==
    LET m == mask_or(a.mask, b.mask) IN
    [data |-> [p \in Pixels |-> IF m[p] THEN a.data[p] ELSE a.data[p] + b.data[p]],
     mask |-> m]

\* np.ma.masked_array(image, mask) / self._cmdAmp: the quotient is kept as numerator
\* and denominator; dividing by zero masks every pixel
MaDiv(image, mask, amp) ==
    [num |-> image, den |-> amp,
     mask |-> IF amp = 0 THEN [p \in Pixels |-> TRUE] ELSE mask]

-----------------------------------------------------------------------------
(* Alignment._push_pull_redux                                              *)

RECURSIVE redux_loop(_, _, _)

\* a reduction that adds each image once with its own weight
redux_loop_once(imgs, tpl, x) ==
    IF x = 0
    THEN [image |-> [p \in Pixels |-> 0], mask_set |-> FALSE,
          master_mask |-> [p \in Pixels |-> FALSE], raised |-> "none"]
    ELSE LET prev == redux_loop(imgs, tpl, x - 1)
             opd2add  == IF x = 1
                         THEN MaAdd(MaMul(imgs[2], tpl[2]), MaMul(imgs[1], tpl[1]))
                         ELSE MaMul(imgs[x + 1], tpl[x + 1])
             mask2add == mask_or(imgs[x + 1].mask, imgs[x].mask)
         IN  [image |-> [p \in Pixels |-> prev.image[p] + opd2add.data[p]],
              mask_set |-> TRUE,
              master_mask |-> IF x = 1 THEN mask2add
                              ELSE mask_or(prev.master_mask, mask2add),
              raised |-> "none"]

\* a reduction whose master mask keeps only the last pair's mask
redux_loop_lastmask(imgs, tpl, x) ==
    IF x = 0
    THEN [image |-> [p \in Pixels |-> 0], mask_set |-> FALSE,
          master_mask |-> [p \in Pixels |-> FALSE], raised |-> "none"]
    ELSE LET prev == redux_loop(imgs, tpl, x - 1)
             opd2add  == MaAdd(MaMul(imgs[x + 1], tpl[x + 1]),
                               MaMul(imgs[x], tpl[x]))
             mask2add == mask_or(imgs[x + 1].mask, imgs[x].mask)
         IN  [image |-> [p \in Pixels |-> prev.image[p] + opd2add.data[p]],
              mask_set |-> TRUE,
              master_mask |-> mask2add,
              raised |-> "none"]

\* the loop `for x in range(1, len(imglist))`, after Python's iteration x;
\* tpl is the template with the -1 inserted.  Sequences are 1-based, so
\* Python's imglist[x] is imgs[x+1].
redux_loop(imgs, tpl, x) ==
    IF x = 0
    THEN [image |-> [p \in Pixels |-> 0], mask_set |-> FALSE,
          master_mask |-> [p \in Pixels |-> FALSE], raised |-> "none"]
    ELSE LET prev == redux_loop(imgs, tpl, x - 1) IN
         IF prev.raised # "none" THEN prev
         ELSE IF x + 1 > Len(tpl) THEN [prev EXCEPT !.raised = "IndexError"]
         ELSE LET opd2add  == MaAdd(MaMul(imgs[x + 1], tpl[x + 1]),
                                    MaMul(imgs[x], tpl[x]))
                  mask2add == mask_or(imgs[x + 1].mask, imgs[x].mask)
              IN  [image |-> [p \in Pixels |-> prev.image[p] + opd2add.data[p]],
                   mask_set |-> TRUE,
                   master_mask |-> IF x = 1 THEN mask2add
                                   ELSE mask_or(prev.master_mask, mask2add),
                   raised |-> "none"]

\* a reduction that leaves the -1 at the head of the template list
push_pull_redux_nopop(imgs, template, amp) ==
    LET tpl  == <<0 - 1>> \o template
        loop == redux_loop(imgs, tpl, Len(imgs) - 1)
    IN  IF loop.raised # "none"
        THEN [res |-> Raise(loop.raised), template |-> tpl, acc |-> loop.image]
        ELSE IF ~loop.mask_set
        THEN [res |-> Raise("UnboundLocalError"), template |-> tpl, acc |-> loop.image]
        ELSE [res |-> Ok(MaDiv(loop.image, loop.master_mask, amp)),
              template |-> tpl, acc |-> loop.image]

\* _push_pull_redux(imglist, template) with self._cmdAmp = amp.  Returns
\* the call's result, the template list as the call leaves it, and the sum
\* accumulated in `image` before the division.
push_pull_redux(imgs, template, amp) ==
    LET tpl  == <<0 - 1>> \o template
        loop == redux_loop(imgs, tpl, Len(imgs) - 1)
    IN  IF loop.raised # "none"
        THEN [res |-> Raise(loop.raised), template |-> tpl, acc |-> loop.image]
        ELSE IF ~loop.mask_set
        THEN [res |-> Raise("UnboundLocalError"), template |-> tpl, acc |-> loop.image]
        ELSE [res |-> Ok(MaDiv(loop.image, loop.master_mask, amp)),
              template |-> Tail(tpl), acc |-> loop.image]

-----------------------------------------------------------------------------
(* Direct calls of _push_pull_redux on any template and any n+1 images     *)

Weights == {0 - 2, 0 - 1, 1}
Templates == UNION {[1..n -> Weights] : n \in 0..MaxT}
\* the amplitude is nonzero (invariant of the data model)
Amps == {1, 2}

InitRedux ==
    /\ AtRest
    /\ \E t \in Templates : \E il \in [1..(Len(t) + 1) -> Images] : \E a \in Amps :
           args = [template |-> t, imglist |-> il, cmdAmp |-> a]
    /\ ret = [op |-> "none"]

CallRedux ==
    /\ ret.op = "none"
    /\ ret' = [op |-> "redux"] @@ push_pull_redux(args.imglist, args.template, args.cmdAmp)
    /\ UNCHANGED <<args, machineVars>>

NextRedux == CallRedux

SpecRedux == InitRedux /\ [][NextRedux]_vars

-----------------------------------------------------------------------------
(* Alignment._extract_cmds_to_apply: the per-device delta                  *)

\* fullCmd[sl], Python slicing: the elements of index sl.start <= j < sl.stop
\* that exist
PySlice(full, sl) ==
    LET hi == IF sl.stop < Len(full) THEN sl.stop ELSE Len(full)
        n  == IF hi > sl.start THEN hi - sl.start ELSE 0
    IN  [i \in 1..n |-> full[sl.start + i]]

\* a scatter that writes the i-th value at position i, not at dof[i]
scatter_identity(dev_cmd, dof_d, dev_idx, n) ==
    Ok([j \in 1..Len(dev_cmd) |-> IF j <= n THEN dev_idx[j] ELSE dev_cmd[j]])

\* the loop `for i,idx in enumerate(dev_idx): dev_cmd[dof[i]] = idx`, after
\* its first n iterations; dof holds 0-based positions
RECURSIVE scatter(_, _, _, _)
scatter(dev_cmd, dof_d, dev_idx, n) ==
    IF n = 0 THEN Ok(dev_cmd)
    ELSE LET prev == scatter(dev_cmd, dof_d, dev_idx, n - 1) IN
         IF prev.raised # "none" THEN prev
         ELSE IF n > Len(dof_d) THEN Raise("IndexError")
         ELSE IF dof_d[n] >= Len(dev_cmd) \/ dof_d[n] < 0 - Len(dev_cmd)
              THEN Raise("IndexError")
         ELSE LET at == IF dof_d[n] >= 0 THEN dof_d[n] + 1
                        ELSE Len(dev_cmd) + dof_d[n] + 1
              IN  Ok([prev.value EXCEPT ![at] = dev_idx[n]])

\* lines 306-309 for one device: dev_cmd = np.zeros(dofTot[d]), then the
\* scatter of fullCmd[idx[d]] through dof[d]
dev_delta(full, dof_d, dofTot_d, idx_d) ==
    LET dev_idx == PySlice(full, idx_d)
    IN  scatter([j \in 1..dofTot_d |-> 0], dof_d, dev_idx, Len(dev_idx))

-----------------------------------------------------------------------------
(* Direct calls of the mapper on any full command, slice and DOF map       *)

SliceChoices == {[start |-> a, stop |-> b] : a \in 0..MaxLen, b \in 0..MaxLen}

InitMapper ==
    /\ AtRest
    /\ \E f \in AllVects : \E sl \in {x \in SliceChoices : x.start <= x.stop} :
       \E m \in [1..(sl.stop - sl.start) -> 0..(MaxDof - 1)] :
           args = [fullCmd |-> f, idx |-> sl, dof |-> m, dofTot |-> MaxDof]
    /\ ret = [op |-> "none"]

CallDelta ==
    /\ ret.op = "none"
    /\ ret' = [op |-> "delta",
               res |-> dev_delta(args.fullCmd, args.dof, args.dofTot, args.idx)]
    /\ UNCHANGED <<args, machineVars>>

NextMapper == CallDelta

SpecMapper == InitMapper /\ [][NextMapper]_vars

-----------------------------------------------------------------------------
(* Alignment._zern_routine                                                 *)

\* zern.zernikeFit(img, self._zvec2fit): the modal decomposition, a black
\* box; its j-th coefficient is kept as the pair (mode fitted, image fitted)
zernikeFit(img, zvec) == [j \in 1..Len(zvec) |-> [mode |-> zvec[j], of |-> img]]

\* coeff[self._zvec2use]: numpy indexing with the 0-based list
retained(coeff) == [m \in 1..Len(zernike_to_use) |-> coeff[zernike_to_use[m] + 1]]

\* _zern_routine(imglist) for a list (self._auxMask is None as configured):
\* one row of retained coefficients per element of the list; a list of one
\* element gives that row alone
zern_routine(il) ==
    LET coefflist == [j \in 1..Len(il) |-> retained(zernikeFit(il[j], zvec2fit))]
    IN  IF Len(coefflist) = 1 THEN coefflist[1] ELSE coefflist

-----------------------------------------------------------------------------
(* calibrate_alignment on the configured devices                           *)

\* the template list in use: the caller's, or self._template
template == IF use_default THEN cfg_template ELSE caller_template

\* the value of n_results
NResults == IF n_results.alias THEN results ELSE [j \in 1..n_results.refs |-> results]

\* number of columns of self.cmdMat
NCols == Len(cmdMat)

\* the n-th frame the camera delivers: every frame is valid and carries its
\* own serial number, so that frames can be told apart
Frame(n) == [data |-> [p \in Pixels |-> n], mask |-> [p \in Pixels |-> FALSE]]

Event(ev, dev, val) == [ev |-> ev, dev |-> dev, val |-> val]

\* a full command that leaves the amplitude out
cycle_command_noamp(col, amp, t) == [j \in 1..Len(col) |-> col[j] * t]

\* cmd = self.cmdMat.T[k] * self._cmdAmp * t
cycle_command(col, amp, t) == [j \in 1..Len(col) |-> (col[j] * amp) * t]

\* a read that hands back the position read earlier in the cycle
DevRead_cached(dv) ==
    IF \E q \in 1..Len(log) : log[q].ev = "read" /\ log[q].dev = dv
    THEN log[CHOOSE q \in 1..Len(log) :
                 /\ log[q].ev = "read" /\ log[q].dev = dv
                 /\ \A q2 \in 1..(q - 1) : ~(log[q2].ev = "read" /\ log[q2].dev = dv)].val
    ELSE devPos[dv]

\* temp = fnc(): the read call of device dv
DevRead(dv) == devPos[dv]

\* a move whose exception is not caught
try_move_uncaught(dv, vect) ==
    IF dv \in broken
    THEN [ev |-> "fail", devPos |-> devPos, propagates |-> TRUE]
    ELSE [ev |-> "move", devPos |-> [devPos EXCEPT ![dv] = vect], propagates |-> FALSE]

\* a device that takes the vector as a displacement from where it is
try_move_additive(dv, vect) ==
    IF dv \in broken
    THEN [ev |-> "fail", devPos |-> devPos, propagates |-> FALSE]
    ELSE [ev |-> "move", devPos |-> [devPos EXCEPT ![dv] = VecAdd(@, vect).value],
          propagates |-> FALSE]

\* try: fnc(cmd.vect) except Exception: logging.warning(...).  A device that
\* answers goes to the commanded vector; the exception of one that does not
\* is caught
try_move(dv, vect) ==
    IF dv \in broken
    THEN [ev |-> "fail", devPos |-> devPos, propagates |-> FALSE]
    ELSE [ev |-> "move", devPos |-> [devPos EXCEPT ![dv] = vect], propagates |-> FALSE]

colA == <<1, 0, 0, 0, 0, 0, 0>>
colB == <<0, 1, 0, 0, 1, 0, 0>>
colC == <<0, 0, 0, 0, 0, 1, 0 - 1>>
CmdMatChoices == { <<colA>>, <<colB, colC>> }

PosChoices ==
    { [dv \in Devices |-> ZeroVec(dofTot[dv])],
      << <<0, 0, 0 - 1, 0, 0, 0>>, <<0, 0, 0, 0, 0 - 1, 0>>, <<1, 0, 0, 0, 0, 0>> >> }

CallerTemplates == { <<>>, <<1, 0 - 1>>, <<1>> }

RECURSIVE dot(_, _)
\* np.dot of two vectors of the same length
dot(a, b) == IF Len(a) = 0 THEN 0 ELSE Head(a) * Head(b) + dot(Tail(a), Tail(b))

\* reduced_cmdMat = self.cmdMat[:, modes2correct] and
\* f_cmd = np.dot(reduced_cmdMat, reduced_cmd); mat is the sequence of the
\* columns of self.cmdMat, modes2correct holds 0-based column indices
correction_command(mat, modes2correct, reduced_cmd) ==
    [j \in 1..Len(mat[1]) |->
        dot([m \in 1..Len(modes2correct) |-> mat[modes2correct[m] + 1][j]], reduced_cmd)]

\* the columns a caller asks to correct
ModeChoices == { ms \in { <<0>>, <<1>>, <<0, 1>> } : \A m \in 1..Len(ms) : ms[m] < NCols }

\* the reduced commands the reconstruction can give for n modes
ReducedCmds(n) == [1..n -> {0 - 1, 0, 1}]

\* str + other (the + of line 101): Python concatenates two strings and
\* raises TypeError when the right operand is a list
str_add(str, other) ==
    IF "list" \in DOMAIN other THEN Raise("TypeError")
    ELSE Ok([report |-> str, positions |-> other.str])

Init ==
    /\ args = <<>>
    /\ ret = [op |-> "none"]
    /\ NewObject
    /\ IdleCall
    /\ devPos \in PosChoices
    /\ broken \in SUBSET Devices
    /\ cmdMat \in CmdMatChoices

\* calibrate_alignment(cmdAmp, template, n_repetitions): lines 134-136 and
\* the start of _images_production (198-199)
Calibrate ==
    /\ pc = "idle"
    /\ \E amp \in Amps : \E r \in 1..MaxRep : \E dflt \in BOOLEAN :
       \E t \in CallerTemplates :
           /\ dflt => t = <<>>
           /\ cmdAmp' = amp
           /\ n_repetitions' = r
           /\ use_default' = dflt
           /\ caller_template' = t
           /\ call' = [name |-> "calibrate_alignment", apply |-> FALSE,
                       template |-> IF dflt THEN cfg_template ELSE t]
    /\ results' = <<>>
    /\ n_results' = [refs |-> 0, alias |-> FALSE]
    /\ rep_i' = 0
    /\ col_k' = 0
    /\ pc' = "cycle"
    /\ UNCHANGED <<callVars, hwVars, cmdMat, cfg_template, intMat, cycleVars,
                   applyVars, log, produced, startPos, f_cmd, result>>

\* _img_acquisition(k, template), line 334: the reference frame
AcquireReference ==
    /\ pc = "cycle"
    /\ nacq' = nacq + 1
    /\ imglist' = <<Frame(nacq + 1)>>
    /\ tix' = 0
    /\ log' = <<Event("acquire", 0, Frame(nacq + 1))>>
    /\ startPos' = devPos
    /\ pc' = "template"
    /\ UNCHANGED <<callVars, devPos, broken, objVars, prodVars, applyVars, produced,
                   topVars>>

\* the entry of _apply_command(fullCmd) (274) up to the per-device deltas
\* of _extract_cmds_to_apply (304-310)
EnterApply(cmd) ==
    LET deltas == [dv \in Devices |-> dev_delta(cmd, dof[dv], dofTot[dv], slices[dv])]
    IN  /\ fullCmd' = cmd
        /\ log' = Append(log, Event("apply", 0, cmd))
        /\ IF \E dv \in Devices : deltas[dv].raised # "none"
           THEN /\ pc' = "raised"
                /\ UNCHANGED commands
           ELSE /\ pc' = "read"
                /\ commands' = [dv \in Devices |-> Command(deltas[dv].value, "None")]
        /\ positions' = <<>>
        /\ dev_d' = 0

\* lines 335-342 for the next weight t, then _apply_command on the command
\* of that weight
ApplyCommand ==
    /\ pc = "template"
    /\ tix < Len(template)
    /\ EnterApply(cycle_command(cmdMat[col_k + 1], cmdAmp, template[tix + 1]))
    /\ UNCHANGED <<callVars, hwVars, objVars, prodVars, cycleVars, device_commands,
                   produced, startPos, topVars>>

\* read_positions (155-157), one device per step; after the last device,
\* lines 312-316: the absolute commands pos + cmd
ReadPosition ==
    /\ pc = "read"
    /\ LET temp == DevRead(dev_d + 1)
           pos  == Append(positions, Command(temp, "None"))
           sums == [dv \in Devices |-> Add(pos[dv], commands[dv])]
       IN  /\ positions' = pos
           /\ log' = Append(log, Event("read", dev_d + 1, temp))
           /\ IF dev_d + 1 < NDev
              THEN /\ dev_d' = dev_d + 1
                   /\ pc' = "read"
                   /\ UNCHANGED device_commands
              ELSE /\ dev_d' = 0
                   /\ IF \E dv \in Devices : sums[dv].raised # "none"
                      THEN /\ pc' = "raised"
                           /\ UNCHANGED device_commands
                      ELSE /\ pc' = "move"
                           /\ device_commands' = [dv \in Devices |-> sums[dv].value]
    /\ UNCHANGED <<callVars, hwVars, objVars, prodVars, cycleVars, fullCmd, commands,
                   produced, startPos, topVars>>

\* where the call goes on after device dv of _apply_command: the next
\* device, or back in the caller (_img_acquisition 343, correct_alignment 101)
AfterDevice(dv) ==
    IF dv < NDev THEN "move"
    ELSE IF call.name = "correct_alignment" THEN "readback" ELSE "acquire"

\* a test that skips every command whose target is the zero vector
should_skip_null(cmd) == AllZero(cmd.vect)

\* if cmd.to_ignore
should_skip(cmd) == cmd.to_ignore

\* _apply_command, 276-278: a command flagged to_ignore is skipped
SkipDevice ==
    /\ pc = "move"
    /\ should_skip(device_commands[dev_d + 1])
    /\ log' = Append(log, Event("skip", dev_d + 1, device_commands[dev_d + 1].vect))
    /\ pc' = AfterDevice(dev_d + 1)
    /\ dev_d' = IF dev_d + 1 < NDev THEN dev_d + 1 ELSE 0
    /\ UNCHANGED <<callVars, hwVars, objVars, prodVars, cycleVars, fullCmd, commands,
                   positions, device_commands, produced, startPos, topVars>>

\* _apply_command, 279-284: the move call of the next device
MoveDevice ==
    /\ pc = "move"
    /\ ~should_skip(device_commands[dev_d + 1])
    /\ LET out == try_move(dev_d + 1, device_commands[dev_d + 1].vect)
       IN  /\ devPos' = out.devPos
           /\ log' = Append(log, Event(out.ev, dev_d + 1, device_commands[dev_d + 1].vect))
           /\ pc' = IF out.propagates THEN "raised" ELSE AfterDevice(dev_d + 1)
    /\ dev_d' = IF dev_d + 1 < NDev THEN dev_d + 1 ELSE 0
    /\ UNCHANGED <<callVars, broken, nacq, objVars, prodVars, cycleVars, fullCmd,
                   commands, positions, device_commands, produced, startPos, topVars>>

\* _img_acquisition, line 343: the frame after the move
AcquireImage ==
    /\ pc = "acquire"
    /\ nacq' = nacq + 1
    /\ imglist' = Append(imglist, Frame(nacq + 1))
    /\ tix' = tix + 1
    /\ log' = Append(log, Event("acquire", 0, Frame(nacq + 1)))
    /\ pc' = "template"
    /\ UNCHANGED <<callVars, devPos, broken, objVars, prodVars, applyVars, produced,
                   startPos, topVars>>

\* _images_production, 211-216: the reduction of the cycle's frames, which
\* inserts -1 into the template list in use and pops it again, and the loop
\* control of the two for loops
Redux ==
    /\ pc = "template"
    /\ tix >= Len(template)
    /\ LET r == push_pull_redux(imglist, template, cmdAmp) IN
       /\ IF use_default
          THEN cfg_template' = r.template /\ UNCHANGED caller_template
          ELSE caller_template' = r.template /\ UNCHANGED cfg_template
       /\ IF r.res.raised # "none"
          THEN /\ pc' = "raised"
               /\ UNCHANGED <<results, n_results, rep_i, col_k, produced>>
          ELSE /\ results' = Append(results, r.res.value)
               /\ produced' = Append(produced, [rep |-> rep_i, col |-> col_k,
                                                image |-> r.res.value])
               /\ IF col_k + 1 < NCols
                  THEN /\ col_k' = col_k + 1
                       /\ pc' = "cycle"
                       /\ UNCHANGED <<n_results, rep_i>>
                  ELSE /\ n_results' = IF n_repetitions # 1
                                       THEN [n_results EXCEPT !.refs = @ + 1]
                                       ELSE [n_results EXCEPT !.alias = TRUE]
                       /\ col_k' = 0
                       /\ IF rep_i + 1 < n_repetitions
                          THEN rep_i' = rep_i + 1 /\ pc' = "cycle"
                          ELSE rep_i' = rep_i /\ pc' = "zern"
    /\ UNCHANGED <<callVars, hwVars, cmdMat, cmdAmp, intMat, use_default,
                   n_repetitions, cycleVars, applyVars, log, startPos, topVars>>

\* calibrate_alignment, 137-141: the interaction matrix
ZernRoutine ==
    /\ pc = "zern"
    /\ intMat' = zern_routine(NResults)
    /\ result' = Ok("Ready for Alignment...")
    /\ pc' = "done"
    /\ UNCHANGED <<callVars, hwVars, cmdMat, cmdAmp, cfg_template, prodVars, cycleVars,
                   applyVars, log, produced, startPos, call, f_cmd>>

\* correct_alignment(modes2correct, zern2correct, apply), 89-102: the frame,
\* the correction command, and either its return or the entry of
\* _apply_command.  The reduced command is the product of the pseudo-inverse
\* of the stored interaction matrix with the fitted coefficients, data the
\* object reads from outside: any vector of ReducedCmds(n) can come out.
CorrectAlignment ==
    /\ pc = "idle"
    /\ nacq' = nacq + 1
    /\ \E modes2correct \in ModeChoices : \E apply \in BOOLEAN :
       \E reduced_cmd \in ReducedCmds(Len(modes2correct)) :
           LET cmd == correction_command(cmdMat, modes2correct, reduced_cmd) IN
           /\ call' = [name |-> "correct_alignment", apply |-> apply, template |-> <<>>]
           /\ f_cmd' = cmd
           /\ IF apply
              THEN /\ EnterApply(cmd)
                   /\ UNCHANGED result
              ELSE /\ result' = Ok(cmd)
                   /\ pc' = "done"
                   /\ UNCHANGED <<applyVars, log>>
    /\ UNCHANGED <<callVars, devPos, broken, objVars, prodVars, cycleVars,
                   device_commands, produced, startPos>>

\* correct_alignment, 101: read_positions (155-157), one device per step,
\* then "Alignment Corrected\n" + the list it returned
ReadBack ==
    /\ pc = "readback"
    /\ LET temp == DevRead(dev_d + 1)
           pos  == Append(IF dev_d = 0 THEN <<>> ELSE positions, Command(temp, "None"))
       IN  /\ positions' = pos
           /\ log' = Append(log, Event("read", dev_d + 1, temp))
           /\ IF dev_d + 1 < NDev
              THEN /\ dev_d' = dev_d + 1
                   /\ pc' = "readback"
                   /\ UNCHANGED result
              ELSE /\ dev_d' = 0
                   /\ result' = str_add("Alignment Corrected", [list |-> pos])
                   /\ pc' = "done"
    /\ UNCHANGED <<callVars, hwVars, objVars, prodVars, cycleVars, fullCmd, commands,
                   device_commands, produced, startPos, call, f_cmd>>

Next ==
    \/ Calibrate
    \/ AcquireReference
    \/ ApplyCommand
    \/ ReadPosition
    \/ SkipDevice
    \/ MoveDevice
    \/ AcquireImage
    \/ Redux
    \/ ZernRoutine
    \/ CorrectAlignment
    \/ ReadBack

Spec == Init /\ [][Next]_vars

-----------------------------------------------------------------------------
(* Claims on the arbiter                                                   *)

\* C1: for P and C of equal length, P + C returns S = P + C element by
\* element and the ignore flag of the decision table: (S=0, P#0, C#0) ->
\* false; (P=0, C=0) -> true; (P#0, C=0) -> true; (P#0, C#0, S#0) -> false;
\* (P=0, C#0) -> false.
C1_AddMatchesTable ==
    (ret.op = "add" /\ Len(args.P) = Len(args.C)) =>
        /\ ret.res.raised = "none"
        /\ Len(ret.res.value.vect) = Len(args.P)
        /\ \A i \in 1..Len(args.P) :
               ret.res.value.vect[i] = args.P[i] + args.C[i]
        /\ LET Pz == AllZero(args.P)
               Cz == AllZero(args.C)
               Sz == \A i \in 1..Len(args.P) : args.P[i] + args.C[i] = 0
               ig == ret.res.value.to_ignore
           IN  /\ (Sz /\ ~Pz /\ ~Cz) => ig = FALSE
               /\ (Pz /\ Cz) => ig = TRUE
               /\ (~Pz /\ Cz) => ig = TRUE
               /\ (~Pz /\ ~Cz /\ ~Sz) => ig = FALSE
               /\ (Pz /\ ~Cz) => ig = FALSE

\* a nonzero position combined with a null delta of the same length
C1_Witness ==
    /\ ret.op = "add"
    /\ Len(args.P) = Len(args.C)
    /\ ~AllZero(args.P)
    /\ AllZero(args.C)
    /\ ret.res.raised = "none"
    /\ ret.res.value.to_ignore = TRUE

\* C10: on each of the three (P null, C null, S null) patterns outside the
\* decision table the decision logic raises UnhandledCase.
C10_InvalidRaiseUnhandledCase ==
    (/\ ret.op = "logic"
     /\ LET Pz == AllZero(args.P)
            Cz == AllZero(args.C)
            Sz == AllZero(ret.S)
        IN  \/ (Pz /\ ~Cz /\ Sz)
            \/ (~Pz /\ Cz /\ Sz)
            \/ (Pz /\ Cz /\ ~Sz))
    => ret.res.raised = "UnhandledCase"

-----------------------------------------------------------------------------
(* Claims on the push-pull reduction                                       *)

\* the weights used by the reduction: -1 for the reference, then the template
RefWeights(t) == <<0 - 1>> \o t

\* pixel p is valid in every image of the list
ValidEverywhere(il, p) == \A j \in 1..Len(il) : ~il[j].mask[p]

RECURSIVE SumTo(_, _)
SumTo(f, n) == IF n = 0 THEN 0 ELSE f[n] + SumTo(f, n - 1)

\* C2 (as claimed): when the reduction returns, the accumulated sum is
\* sum(weight_i * image_i) with weights [-1, t_1..t_n], each image counted
\* once; stated at the pixels that are valid in every image.
C2_EachImageOnce ==
    (ret.op = "redux" /\ ret.res.raised = "none") =>
        \A p \in Pixels :
            ValidEverywhere(args.imglist, p) =>
                ret.acc[p] =
                    SumTo([j \in 1..Len(args.imglist) |->
                              RefWeights(args.template)[j] * args.imglist[j].data[p]],
                          Len(args.imglist))

\* C2 (amended): at every pixel valid in all images the accumulated sum is
\* the sum over consecutive pairs of w_x*img_x + w_(x-1)*img_(x-1): the
\* reference and the last image are counted once with their weights, every
\* image in between twice (nothing is accumulated for an empty template).
C2_PairwiseSum ==
    ret.op = "redux" =>
        \A p \in Pixels :
            ValidEverywhere(args.imglist, p) =>
                LET n == Len(args.imglist)
                    w == RefWeights(args.template)
                    times(j) == IF n = 1 THEN 0 ELSE IF j = 1 \/ j = n THEN 1 ELSE 2
                IN  ret.acc[p] =
                        SumTo([j \in 1..n |-> times(j) * w[j] * args.imglist[j].data[p]], n)

\* a reduction of three images whose middle image has a valid nonzero pixel
C2_Witness ==
    /\ ret.op = "redux"
    /\ Len(args.imglist) = 3
    /\ ret.res.raised = "none"
    /\ \E p \in Pixels :
           /\ ValidEverywhere(args.imglist, p)
           /\ args.imglist[2].data[p] # 0
           /\ ret.acc[p] # 0

\* C7: the demodulated image is masked at a pixel exactly when some image of
\* the cycle (reference or template image) is invalid there.
C7_MaskIsUnion ==
    (ret.op = "redux" /\ ret.res.raised = "none") =>
        \A p \in Pixels :
            ret.res.value.mask[p] <=> (\E j \in 1..Len(args.imglist) : args.imglist[j].mask[p])

\* a returned image masked at a pixel that only the last image has invalid
C7_Witness ==
    /\ ret.op = "redux"
    /\ ret.res.raised = "none"
    /\ Len(args.imglist) = 3
    /\ \E p \in Pixels :
           /\ args.imglist[3].mask[p]
           /\ ~args.imglist[1].mask[p]
           /\ ~args.imglist[2].mask[p]
           /\ ret.res.value.mask[p]

-----------------------------------------------------------------------------
(* Claims on the mapper                                                    *)

\* the DOF map lists no position twice
Distinct(m) == \A i, j \in DOMAIN m : i # j => m[i] # m[j]

\* C3: with distinct DOF indices, the per-device delta holds at position
\* dof[i] the i-th value of the device's slice of the full command, and is
\* zero at every position the slice's values were not mapped to.
C3_ScatterGather ==
    (ret.op = "delta" /\ Distinct(args.dof)) =>
        LET hi == IF args.idx.stop < Len(args.fullCmd) THEN args.idx.stop
                  ELSE Len(args.fullCmd)
            cnt == IF hi > args.idx.start THEN hi - args.idx.start ELSE 0
        IN  /\ ret.res.raised = "none"
            /\ Len(ret.res.value) = args.dofTot
            /\ \A i \in 1..cnt :
                   ret.res.value[args.dof[i] + 1] = args.fullCmd[args.idx.start + i]
            /\ \A j \in 1..args.dofTot :
                   (\A i \in 1..cnt : args.dof[i] + 1 # j) => ret.res.value[j] = 0

\* a two-value slice scattered to positions that are not the first two
C3_Witness ==
    /\ ret.op = "delta"
    /\ Distinct(args.dof)
    /\ Len(args.dof) = 2
    /\ args.dof[1] = 2
    /\ args.dof[2] = 0
    /\ Len(args.fullCmd) = 2
    /\ args.idx = [start |-> 0, stop |-> 2]
    /\ args.fullCmd[1] # 0
    /\ args.fullCmd[2] # 0
    /\ args.fullCmd[1] # args.fullCmd[2]
    /\ ret.res.raised = "none"
    /\ ret.res.value[3] = args.fullCmd[1]

-----------------------------------------------------------------------------
(* Claims on command application and on the calibration loop               *)

\* index in the log of the latest _apply_command, 0 when there is none
LastApply ==
    IF \E q \in 1..Len(log) : log[q].ev = "apply"
    THEN CHOOSE q \in 1..Len(log) :
             log[q].ev = "apply" /\ \A q2 \in (q + 1)..Len(log) : log[q2].ev # "apply"
    ELSE 0

\* the delta of device dv under the full command cmd, written out: the
\* value of the slice at the place the DOF map names, zero elsewhere
ExpectedDelta(dv, cmd) ==
    [j \in 1..dofTot[dv] |->
        IF \E x \in 1..Len(dof[dv]) : dof[dv][x] + 1 = j
        THEN cmd[slices[dv].start + (CHOOSE x \in 1..Len(dof[dv]) : dof[dv][x] + 1 = j)]
        ELSE 0]

\* C4: a move call that raises does not end _apply_command: the call never
\* raises because of it, and when it returns every later device whose
\* command is not ignored has had its move call issued.
C4_FailureIsContained ==
    /\ (\E q \in 1..Len(log) : log[q].ev = "fail") => pc # "raised"
    /\ pc = "acquire" =>
           \A q \in (LastApply + 1)..Len(log) :
               log[q].ev = "fail" =>
                   \A dv \in (log[q].dev + 1)..NDev :
                       ~device_commands[dv].to_ignore =>
                           \E q2 \in (q + 1)..Len(log) :
                               /\ log[q2].dev = dv
                               /\ log[q2].ev \in {"move", "fail"}
                               /\ log[q2].val = device_commands[dv].vect

\* _apply_command has returned after the move of the first device failed and
\* the move of a later device was carried out
C4_Witness ==
    /\ pc = "acquire"
    /\ \E q \in (LastApply + 1)..Len(log) : \E q2 \in (q + 1)..Len(log) :
           /\ log[q].ev = "fail"
           /\ log[q2].ev = "move"
           /\ log[q2].dev > log[q].dev
           /\ devPos[log[q2].dev] = log[q2].val

\* the acquisition part of the cycle is over
CycleAcquired == pc = "template" /\ tix = Len(template)

\* C5: a finished push-pull cycle on column k consists of the reference
\* acquisition, then for each weight t in order the application of
\* column_k * amplitude * t, the reads and the per-device moves of that
\* application only, and one acquisition; the n+1 frames are returned in
\* acquisition order.
C5_CycleOrder ==
    CycleAcquired =>
        LET n      == Len(template)
            stride == 2 * NDev + 2
        IN  /\ Len(imglist) = n + 1
            /\ Len(log) = 1 + n * stride
            /\ log[1].ev = "acquire"
            /\ log[1].val = imglist[1]
            /\ \A j \in 1..n :
                   LET base == 1 + (j - 1) * stride IN
                   /\ log[base + 1].ev = "apply"
                   /\ log[base + 1].val =
                          [x \in 1..Len(cmdMat[col_k + 1]) |->
                              cmdMat[col_k + 1][x] * cmdAmp * template[j]]
                   /\ \A dv \in Devices :
                          /\ log[base + 1 + dv].ev = "read"
                          /\ log[base + 1 + dv].dev = dv
                          /\ log[base + 1 + NDev + dv].ev \in {"skip", "move", "fail"}
                          /\ log[base + 1 + NDev + dv].dev = dv
                   /\ log[base + stride].ev = "acquire"
                   /\ log[base + stride].val = imglist[j + 1]
            /\ \A j1, j2 \in 1..(n + 1) : j1 < j2 => imglist[j1].data[1] < imglist[j2].data[1]

\* a finished cycle of three weights at amplitude 2 in which a device moved
C5_Witness ==
    /\ CycleAcquired
    /\ Len(template) = 3
    /\ cmdAmp = 2
    /\ Len(imglist) = 4
    /\ \E q \in 1..Len(log) : log[q].ev = "move"

\* C6: in every application all devices are read before the first move, the
\* positions read are the ones the devices are at when the moves begin, and
\* the target sent to a device is the position just read plus its delta.
C6_FreshPositions ==
    pc \in {"move", "acquire"} =>
        LET a == LastApply IN
        /\ Len(log) >= a + NDev
        /\ \A dv \in Devices :
               /\ log[a + dv].ev = "read"
               /\ log[a + dv].dev = dv
               /\ (pc = "move" /\ dev_d = 0) => log[a + dv].val = devPos[dv]
        /\ \A q \in (a + NDev + 1)..Len(log) :
               /\ log[q].ev \in {"skip", "move", "fail"}
               /\ log[q].val =
                      [j \in 1..dofTot[log[q].dev] |->
                          log[a + log[q].dev].val[j]
                              + ExpectedDelta(log[q].dev, log[a].val)[j]]

\* a later application of the cycle, whose read of a device differs from
\* what the first application of the cycle read, followed by a move
C6_Witness ==
    /\ pc = "acquire"
    /\ \E dv \in Devices : \E q \in 1..(LastApply - 1) :
           /\ log[q].ev = "read"
           /\ log[q].dev = dv
           /\ log[q].val # log[LastApply + dv].val
           /\ \E q2 \in (LastApply + NDev + 1)..Len(log) :
                  log[q2].ev = "move" /\ log[q2].dev = dv

\* C8: with n_repetitions = r > 1 the result holds r separate sets: entry i
\* has one demodulated image per column, the ones produced in repetition i.
C8_SeparateSets ==
    (pc \in {"zern", "done"} /\ n_repetitions > 1) =>
        /\ Len(NResults) = n_repetitions
        /\ \A r \in 1..n_repetitions :
               /\ Len(NResults[r]) = NCols
               /\ \A c \in 1..NCols :
                      \E h \in 1..Len(produced) :
                          /\ produced[h].rep = r - 1
                          /\ produced[h].col = c - 1
                          /\ NResults[r][c] = produced[h].image

\* C9: after a calibration of one repetition (on a command matrix of two or
\* more columns) the interaction matrix has one row per retained coefficient
\* and one column per command-matrix column, entry (m, k) being the m-th
\* retained coefficient of the image of column k.
C9_RowsAreModes ==
    (pc = "done" /\ n_repetitions = 1 /\ NCols >= 2) =>
        /\ Len(intMat) = Len(zernike_to_use)
        /\ \A m \in 1..Len(zernike_to_use) :
               /\ Len(intMat[m]) = NCols
               /\ \A c \in 1..NCols :
                      intMat[m][c] = [mode |-> zvec2fit[zernike_to_use[m] + 1],
                                      of |-> produced[c].image]

-----------------------------------------------------------------------------
(* Further claims on the arbiter                                           *)

\* C11: combining a position and a delta of different lengths fails with a
\* shape-mismatch error (numpy's ValueError) and returns no command.
C11_UnequalLengthsFail ==
    (ret.op = "add" /\ Len(args.P) # Len(args.C)) => ret.res.raised = "ValueError"

\* C15: for P and C of equal length the decision is always assigned, and the
\* command is flagged to be ignored exactly when C is the zero vector.
C15_IgnoreIffNullDelta ==
    (ret.op = "add" /\ Len(args.P) = Len(args.C)) =>
        /\ ret.res.raised = "none"
        /\ ret.res.value.to_ignore \in BOOLEAN
        /\ ret.res.value.to_ignore <=> (\A x \in 1..Len(args.C) : args.C[x] = 0)

\* a nonzero delta that takes a nonzero position back to zero is not skipped
C15_Witness ==
    /\ ret.op = "add"
    /\ Len(args.P) = Len(args.C)
    /\ \E x \in 1..Len(args.C) : args.C[x] # 0
    /\ \A x \in 1..Len(args.P) : args.P[x] + args.C[x] = 0
    /\ ret.res.raised = "none"
    /\ ret.res.value.to_ignore = FALSE

-----------------------------------------------------------------------------
(* Further claims on command application, calibration and correction       *)

RECURSIVE Gathered(_, _)
\* the slices of the first n devices taken from cmd, one after the other
Gathered(cmd, n) ==
    IF n = 0 THEN <<>> ELSE Gathered(cmd, n - 1) \o PySlice(cmd, slices[n])

Applied == pc = "acquire" \/ (pc = "readback" /\ dev_d = 0)

\* the move calls device dv received in the latest application
MoveCalls(dv) ==
    {q \in (LastApply + 1)..Len(log) : log[q].dev = dv /\ log[q].ev \in {"move", "fail"}}

\* C14: when an application of a full command is over, the devices have
\* been served in configured order; a device whose combined command is
\* flagged to_ignore received no move call; any other device received
\* exactly one, carrying the position read plus its delta.
C14_MoveIffNotIgnored ==
    Applied =>
        LET a == LastApply IN
        /\ Len(log) = a + 2 * NDev
        /\ \A dv \in Devices :
               LET e == log[a + NDev + dv] IN
               /\ e.dev = dv
               /\ e.ev \in {"skip", "move", "fail"}
               /\ device_commands[dv].to_ignore =>
                      /\ e.ev = "skip"
                      /\ MoveCalls(dv) = {}
               /\ ~device_commands[dv].to_ignore =>
                      /\ MoveCalls(dv) = {a + NDev + dv}
                      /\ e.val = [j \in 1..dofTot[dv] |->
                                     log[a + dv].val[j] + ExpectedDelta(dv, log[a].val)[j]]

\* an application in which one device was skipped and another was sent back
\* to the zero vector
C14_Witness ==
    /\ pc = "acquire"
    /\ \E dv \in Devices : log[LastApply + NDev + dv].ev = "skip"
    /\ \E dv \in Devices :
           /\ log[LastApply + NDev + dv].ev = "move"
           /\ AllZero(log[LastApply + NDev + dv].val)
           /\ ~AllZero(log[LastApply + dv].val)

\* C16: when the acquisitions of a cycle whose template sums to zero are
\* over and no move call of the cycle failed, every device is at the
\* position it had when the cycle began.
C16_ZeroSumReturns ==
    (/\ CycleAcquired
     /\ SumTo(template, Len(template)) = 0
     /\ \A q \in 1..Len(log) : log[q].ev # "fail")
    => devPos = startPos

\* a finished cycle of the default template in which a device left its
\* nonzero starting position and came back
C16_Witness ==
    /\ CycleAcquired
    /\ template = <<1, 0 - 2, 1>>
    /\ \A q \in 1..Len(log) : log[q].ev # "fail"
    /\ \E q \in 1..Len(log) :
           /\ log[q].ev = "move"
           /\ log[q].val # startPos[log[q].dev]
           /\ ~AllZero(startPos[log[q].dev])
    /\ devPos = startPos

\* the positions of the apply events in the log of the current cycle
ApplyEvents == {q \in 1..Len(log) : log[q].ev = "apply"}

\* C17: as long as every _push_pull_redux of a calibration has returned,
\* the template list in use holds the weights it held when calibrate_alignment
\* was called, the configured default is the configured one, and while a
\* cycle runs its j-th command is its column times the amplitude times the
\* j-th of those weights.
C17_TemplateRestored ==
    (call.name = "calibrate_alignment" /\ pc # "raised") =>
        /\ template = call.template
        /\ cfg_template = push_pull_template
        /\ pc \in {"template", "read", "move", "acquire"} =>
           \A q \in ApplyEvents :
               LET j == Cardinality({q2 \in ApplyEvents : q2 <= q}) IN
               /\ j <= Len(call.template)
               /\ log[q].val = [x \in 1..Len(cmdMat[col_k + 1]) |->
                                   cmdMat[col_k + 1][x] * cmdAmp * call.template[j]]

\* a calibration of two repetitions on two columns with the default template
\* is over
C17_Witness ==
    /\ pc = "done"
    /\ call.name = "calibrate_alignment"
    /\ use_default
    /\ n_repetitions = 2
    /\ Len(produced) = 4
    /\ cfg_template = <<1, 0 - 2, 1>>

\* C13: correct_alignment with apply=True has handed its command to
\* _apply_command and returns the report "Alignment Corrected" with the
\* positions; with apply=False it returns the command.
C13_ReturnsReportOrCommand ==
    (call.name = "correct_alignment" /\ pc = "done") =>
        IF call.apply
        THEN /\ \E q \in 1..Len(log) : log[q].ev = "apply" /\ log[q].val = f_cmd
             /\ result.raised = "none"
             /\ result.value.report = "Alignment Corrected"
        ELSE result = Ok(f_cmd)

====
